---- MODULE Spec2Model ----
(***************************************************************************)
(* Battery model (src/src/battery.rs) and greedy dispatch planner          *)
(* (src/src/planning.rs) of rust-battery-management.                       *)
(*                                                                         *)
(* The program computes on f64.  The model computes on exact rationals,    *)
(* a value being a pair <<n, d>> in lowest terms with d > 0; every f64     *)
(* operation of the source (min, *, /, +, -, <, <=, >, floor) is the exact *)
(* operation on these pairs.  Rounding of f64 is not modelled.             *)
(***************************************************************************)
EXTENDS Integers, Sequences, FiniteSets, TLC

VARIABLES
    config,       \* Settings read from config.toml
    battery,      \* the Battery struct
    last,         \* the last call made on the battery API and its result
    durations_ok, \* history: every call so far had duration_hours >= 0
    ncalls,       \* number of API calls made so far
    forecasts,    \* Vec<Forecast> handed to plan_battery_usage
    prices,       \* Vec<ElectricityPrice> handed to plan_battery_usage
    grid_limit,   \* parameter of plan_battery_usage
    average_price,\* parameter of plan_battery_usage
    plan,         \* the Vec<Plan> being built
    idx,          \* number of zipped pairs the for loop has consumed
    trace,        \* history: per processed interval, the battery call made
    pc,           \* position of plan_battery_usage
    result,       \* what plan_battery_usage returned
    hourly_prices,         \* argument of convert_to_fifteen_minute_intervals
    fifteen_minute_prices, \* the Vec it builds
    hour,         \* hourly records its outer loop has finished
    quarter       \* value of i in its inner loop

vars == <<config, battery, last, durations_ok, ncalls, forecasts, prices,
          grid_limit, average_price, plan, idx, trace, pc, result,
          hourly_prices, fifteen_minute_prices, hour, quarter>>

----------------------------------------------------------------------------
(* Bounds of the model *)

MaxCalls == 3
MaxLen == 2
MaxHours == 2

----------------------------------------------------------------------------
(* Exact rational arithmetic standing for f64 *)

Abs(n) == IF n < 0 THEN -n ELSE n

RECURSIVE GCD(_, _)
GCD(a, b) == IF b = 0 THEN a ELSE GCD(b, a % b)

\* the rational n/d (d # 0) in lowest terms with a positive denominator
Rat(n, d) ==
    LET g == GCD(Abs(n), Abs(d))
        s == IF d < 0 THEN -1 ELSE 1
    IN  <<(s * n) \div g, (s * d) \div g>>

RAdd(a, b) == Rat(a[1] * b[2] + b[1] * a[2], a[2] * b[2])
RSub(a, b) == Rat(a[1] * b[2] - b[1] * a[2], a[2] * b[2])
RMul(a, b) == Rat(a[1] * b[1], a[2] * b[2])
RDiv(a, b) == Rat(a[1] * b[2], a[2] * b[1])
RLt(a, b) == a[1] * b[2] < b[1] * a[2]
RLe(a, b) == a[1] * b[2] <= b[1] * a[2]
RGt(a, b) == RLt(b, a)
RMin(a, b) == IF RLt(b, a) THEN b ELSE a
RFloor(a) == <<a[1] \div a[2], 1>>
Zero == <<0, 1>>

----------------------------------------------------------------------------
(* battery.rs *)

\* Battery::new
new(capacity, initial_charge, max_rate, efficiency) ==
    [capacity |-> capacity, charge |-> initial_charge,
     max_rate |-> max_rate, efficiency |-> efficiency]

Err == [ok |-> FALSE, val |-> Zero]
Ok(v) == [ok |-> TRUE, val |-> v]

\* charge_battery without the negative-power check
charge_battery_unchecked(self, amount_mw, duration_hours) ==
    LET effective_mw == RMin(amount_mw, self.max_rate)
        energy_to_battery == RMul(effective_mw, duration_hours)
        actual_energy == RMul(energy_to_battery, self.efficiency)
        available_capacity == RSub(self.capacity, self.charge)
        energy_stored == RMin(actual_energy, available_capacity)
        added == RAdd(self.charge, energy_stored)
        clamped == IF RGt(added, self.capacity) THEN self.capacity ELSE added
    IN  [battery |-> [self EXCEPT !.charge = clamped],
         result |-> Ok(energy_stored)]

\* charge_battery storing actual_energy without fitting it to the capacity
charge_battery_unfitted(self, amount_mw, duration_hours) ==
    IF RLt(amount_mw, Zero)
    THEN [battery |-> self, result |-> Err]
    ELSE
      LET effective_mw == RMin(amount_mw, self.max_rate)
          energy_to_battery == RMul(effective_mw, duration_hours)
          actual_energy == RMul(energy_to_battery, self.efficiency)
          energy_stored == actual_energy
          added == RAdd(self.charge, energy_stored)
          clamped == IF RGt(added, self.capacity) THEN self.capacity ELSE added
      IN  [battery |-> [self EXCEPT !.charge = clamped],
           result |-> Ok(energy_stored)]

\* charge_battery without the max_rate limit
charge_battery_unlimited(self, amount_mw, duration_hours) ==
    IF RLt(amount_mw, Zero)
    THEN [battery |-> self, result |-> Err]
    ELSE
      LET effective_mw == amount_mw
          energy_to_battery == RMul(effective_mw, duration_hours)
          actual_energy == RMul(energy_to_battery, self.efficiency)
          available_capacity == RSub(self.capacity, self.charge)
          energy_stored == RMin(actual_energy, available_capacity)
          added == RAdd(self.charge, energy_stored)
          clamped == IF RGt(added, self.capacity) THEN self.capacity ELSE added
      IN  [battery |-> [self EXCEPT !.charge = clamped],
           result |-> Ok(energy_stored)]

\* Battery::charge_battery: the battery after the call and the Result
charge_battery(self, amount_mw, duration_hours) ==
    IF RLt(amount_mw, Zero)
    THEN [battery |-> self, result |-> Err]
    ELSE
      LET effective_mw == RMin(amount_mw, self.max_rate)
          energy_to_battery == RMul(effective_mw, duration_hours)
          actual_energy == RMul(energy_to_battery, self.efficiency)
          available_capacity == RSub(self.capacity, self.charge)
          energy_stored == RMin(actual_energy, available_capacity)
          added == RAdd(self.charge, energy_stored)
          clamped == IF RGt(added, self.capacity) THEN self.capacity ELSE added
      IN  [battery |-> [self EXCEPT !.charge = clamped],
           result |-> Ok(energy_stored)]

\* discharge_battery that always subtracts, without the drain branch
discharge_battery_undrained(self, amount_mw, duration_hours) ==
    IF RLt(amount_mw, Zero)
    THEN [battery |-> self, result |-> Err]
    ELSE
      LET effective_mw == RMin(amount_mw, self.max_rate)
          energy_needed == RMul(effective_mw, duration_hours)
          actual_energy_needed == RDiv(energy_needed, self.efficiency)
      IN  [battery |-> [self EXCEPT !.charge =
                             RSub(self.charge, actual_energy_needed)],
           result |-> Ok(actual_energy_needed)]

\* discharge_battery returning the energy delivered at the terminal
discharge_battery_terminal(self, amount_mw, duration_hours) ==
    IF RLt(amount_mw, Zero)
    THEN [battery |-> self, result |-> Err]
    ELSE
      LET effective_mw == RMin(amount_mw, self.max_rate)
          energy_needed == RMul(effective_mw, duration_hours)
          actual_energy_needed == RDiv(energy_needed, self.efficiency)
      IN  IF RLt(self.charge, actual_energy_needed)
          THEN [battery |-> [self EXCEPT !.charge = Zero],
                result |-> Ok(self.charge)]
          ELSE [battery |-> [self EXCEPT !.charge =
                                 RSub(self.charge, actual_energy_needed)],
                result |-> Ok(energy_needed)]

\* discharge_battery reporting the energy asked for when it drains
discharge_battery_drain_needed(self, amount_mw, duration_hours) ==
    IF RLt(amount_mw, Zero)
    THEN [battery |-> self, result |-> Err]
    ELSE
      LET effective_mw == RMin(amount_mw, self.max_rate)
          energy_needed == RMul(effective_mw, duration_hours)
          actual_energy_needed == RDiv(energy_needed, self.efficiency)
      IN  IF RLt(self.charge, actual_energy_needed)
          THEN [battery |-> [self EXCEPT !.charge = Zero],
                result |-> Ok(actual_energy_needed)]
          ELSE [battery |-> [self EXCEPT !.charge =
                                 RSub(self.charge, actual_energy_needed)],
                result |-> Ok(actual_energy_needed)]

\* Battery::discharge_battery: the battery after the call and the Result
discharge_battery(self, amount_mw, duration_hours) ==
    IF RLt(amount_mw, Zero)
    THEN [battery |-> self, result |-> Err]
    ELSE
      LET effective_mw == RMin(amount_mw, self.max_rate)
          energy_needed == RMul(effective_mw, duration_hours)
          actual_energy_needed == RDiv(energy_needed, self.efficiency)
      IN  IF RLt(self.charge, actual_energy_needed)
          THEN [battery |-> [self EXCEPT !.charge = Zero],
                result |-> Ok(self.charge)]
          ELSE [battery |-> [self EXCEPT !.charge =
                                 RSub(self.charge, actual_energy_needed)],
                result |-> Ok(actual_energy_needed)]

----------------------------------------------------------------------------
(* Inputs *)

\* config.toml settings the battery is built from (main.rs); the loader
\* validates nothing, so initial_charge > capacity and max_rate <= 0 occur
Capacities == {Rat(3, 1), Rat(1, 1)}
InitialCharges == {Zero, Rat(3, 2), Rat(3, 1)}
MaxRates == {Rat(3, 2), Rat(-1, 1)}
Efficiencies == {Rat(9, 10), Rat(1, 1)}
GridLimits == {Rat(78, 10)}

Settings ==
    [capacity : Capacities, initial_charge : InitialCharges,
     max_rate : MaxRates, efficiency : Efficiencies, grid_limit : GridLimits]

\* arguments of the calls on the battery API
Powers == {Rat(-1, 1), Zero, Rat(1, 1), Rat(5, 1)}
Durations == {Rat(-1, 1), Zero, Rat(1, 4), Rat(1, 1)}

NoCall == [op |-> "none", amount_mw |-> Zero, duration_hours |-> Zero,
           pre |-> new(Zero, Zero, Zero, Zero), result |-> Err]

----------------------------------------------------------------------------
(* The battery API driven by arbitrary callers *)

Init ==
    /\ config \in Settings
    /\ battery = new(config.capacity, config.initial_charge,
                     config.max_rate, config.efficiency)
    /\ last = NoCall
    /\ durations_ok = TRUE
    /\ ncalls = 0
    /\ forecasts = <<>>
    /\ prices = <<>>
    /\ grid_limit = config.grid_limit
    /\ average_price = Zero
    /\ plan = <<>>
    /\ idx = 0
    /\ trace = <<>>
    /\ pc = "api"
    /\ result = "none"
    /\ hourly_prices = <<>>
    /\ fifteen_minute_prices = <<>>
    /\ hour = 0
    /\ quarter = 0

PlanVars == <<forecasts, prices, grid_limit, average_price, plan, idx,
              trace, pc, result>>
PriceVars == <<hourly_prices, fifteen_minute_prices, hour, quarter>>

Charge ==
    /\ ncalls < MaxCalls
    /\ \E amount_mw \in Powers, duration_hours \in Durations :
         LET r == charge_battery(battery, amount_mw, duration_hours)
         IN  /\ battery' = r.battery
             /\ last' = [op |-> "charge", amount_mw |-> amount_mw,
                         duration_hours |-> duration_hours,
                         pre |-> battery, result |-> r.result]
             /\ durations_ok' = (durations_ok /\ RLe(Zero, duration_hours))
    /\ ncalls' = ncalls + 1
    /\ UNCHANGED <<config, PlanVars, PriceVars>>

Discharge ==
    /\ ncalls < MaxCalls
    /\ \E amount_mw \in Powers, duration_hours \in Durations :
         LET r == discharge_battery(battery, amount_mw, duration_hours)
         IN  /\ battery' = r.battery
             /\ last' = [op |-> "discharge", amount_mw |-> amount_mw,
                         duration_hours |-> duration_hours,
                         pre |-> battery, result |-> r.result]
             /\ durations_ok' = (durations_ok /\ RLe(Zero, duration_hours))
    /\ ncalls' = ncalls + 1
    /\ UNCHANGED <<config, PlanVars, PriceVars>>

Next == Charge \/ Discharge

Spec == Init /\ [][Next]_vars

----------------------------------------------------------------------------
(* planning.rs *)

\* zip pairing forecasts with the prices taken from the end
zip_misaligned(fs, ps) ==
    LET n == IF Len(fs) < Len(ps) THEN Len(fs) ELSE Len(ps)
    IN  [i \in 1..n |-> [forecast |-> fs[i], price |-> ps[n + 1 - i]]]

\* zip aligning the two sequences at their ends
zip_from_end(fs, ps) ==
    LET n == IF Len(fs) < Len(ps) THEN Len(fs) ELSE Len(ps)
    IN  [i \in 1..n |-> [forecast |-> fs[Len(fs) - n + i],
                         price |-> ps[Len(ps) - n + i]]]

\* Iterator::zip of forecasts.iter() and prices.iter(): pairs by position,
\* ending with the shorter sequence
zip(fs, ps) ==
    LET n == IF Len(fs) < Len(ps) THEN Len(fs) ELSE Len(ps)
    IN  [i \in 1..n |-> [forecast |-> fs[i], price |-> ps[i]]]

\* (x * 1_000_000.0).floor() / 10.0
energy_wh(x) == RDiv(RFloor(RMul(x, Rat(1000000, 1))), Rat(10, 1))

NoOp(b) == [op |-> "none", amount_mw |-> Zero, duration_hours |-> Zero,
            pre |-> b, post |-> b, result |-> Ok(Zero)]

\* plan_interval taking the duration from the timestamps of the forecast
plan_interval_timestamps(b, forecast, price, limit, average) ==
    LET duration_hours == RDiv(Rat(forecast.end - forecast.start, 1), Rat(60, 1))
    IN  IF RGt(forecast.consumption_average_power_interval, limit)
        THEN
          LET excess == RSub(forecast.consumption_average_power_interval,
                             limit)
              r == discharge_battery(b, excess, duration_hours)
              discharged_energy == r.result.val
          IN  [battery |-> r.battery,
               ok |-> r.result.ok,
               call |-> [op |-> "discharge", amount_mw |-> excess,
                         duration_hours |-> duration_hours,
                         pre |-> b, post |-> r.battery, result |-> r.result],
               entry |-> [start |-> forecast.start, end |-> forecast.end,
                          energy_from_battery_wh |->
                              energy_wh(discharged_energy),
                          energy_to_battery_wh |-> Zero]]
        ELSE IF RLe(price.market_price_per_kwh, average)
        THEN
          LET r == charge_battery(b, Rat(15, 10), duration_hours)
              charge_amount == r.result.val
          IN  [battery |-> r.battery,
               ok |-> r.result.ok,
               call |-> [op |-> "charge", amount_mw |-> Rat(15, 10),
                         duration_hours |-> duration_hours,
                         pre |-> b, post |-> r.battery, result |-> r.result],
               entry |-> [start |-> forecast.start, end |-> forecast.end,
                          energy_from_battery_wh |-> Zero,
                          energy_to_battery_wh |-> energy_wh(charge_amount)]]
        ELSE
          [battery |-> b,
           ok |-> TRUE,
           call |-> NoOp(b),
           entry |-> [start |-> forecast.start, end |-> forecast.end,
                      energy_from_battery_wh |-> Zero,
                      energy_to_battery_wh |-> Zero]]

\* plan_interval charging only below the average price
plan_interval_strict_price(b, forecast, price, limit, average) ==
    LET duration_hours == RDiv(Rat(15, 1), Rat(60, 1))
    IN  IF RGt(forecast.consumption_average_power_interval, limit)
        THEN
          LET excess == RSub(forecast.consumption_average_power_interval,
                             limit)
              r == discharge_battery(b, excess, duration_hours)
              discharged_energy == r.result.val
          IN  [battery |-> r.battery,
               ok |-> r.result.ok,
               call |-> [op |-> "discharge", amount_mw |-> excess,
                         duration_hours |-> duration_hours,
                         pre |-> b, post |-> r.battery, result |-> r.result],
               entry |-> [start |-> forecast.start, end |-> forecast.end,
                          energy_from_battery_wh |->
                              energy_wh(discharged_energy),
                          energy_to_battery_wh |-> Zero]]
        ELSE IF RLt(price.market_price_per_kwh, average)
        THEN
          LET r == charge_battery(b, Rat(15, 10), duration_hours)
              charge_amount == r.result.val
          IN  [battery |-> r.battery,
               ok |-> r.result.ok,
               call |-> [op |-> "charge", amount_mw |-> Rat(15, 10),
                         duration_hours |-> duration_hours,
                         pre |-> b, post |-> r.battery, result |-> r.result],
               entry |-> [start |-> forecast.start, end |-> forecast.end,
                          energy_from_battery_wh |-> Zero,
                          energy_to_battery_wh |-> energy_wh(charge_amount)]]
        ELSE
          [battery |-> b,
           ok |-> TRUE,
           call |-> NoOp(b),
           entry |-> [start |-> forecast.start, end |-> forecast.end,
                      energy_from_battery_wh |-> Zero,
                      energy_to_battery_wh |-> Zero]]

\* plan_interval charging whenever the grid limit is respected
plan_interval_no_idle(b, forecast, price, limit, average) ==
    LET duration_hours == RDiv(Rat(15, 1), Rat(60, 1))
    IN  IF RGt(forecast.consumption_average_power_interval, limit)
        THEN
          LET excess == RSub(forecast.consumption_average_power_interval,
                             limit)
              r == discharge_battery(b, excess, duration_hours)
              discharged_energy == r.result.val
          IN  [battery |-> r.battery,
               ok |-> r.result.ok,
               call |-> [op |-> "discharge", amount_mw |-> excess,
                         duration_hours |-> duration_hours,
                         pre |-> b, post |-> r.battery, result |-> r.result],
               entry |-> [start |-> forecast.start, end |-> forecast.end,
                          energy_from_battery_wh |->
                              energy_wh(discharged_energy),
                          energy_to_battery_wh |-> Zero]]
        ELSE IF TRUE
        THEN
          LET r == charge_battery(b, Rat(15, 10), duration_hours)
              charge_amount == r.result.val
          IN  [battery |-> r.battery,
               ok |-> r.result.ok,
               call |-> [op |-> "charge", amount_mw |-> Rat(15, 10),
                         duration_hours |-> duration_hours,
                         pre |-> b, post |-> r.battery, result |-> r.result],
               entry |-> [start |-> forecast.start, end |-> forecast.end,
                          energy_from_battery_wh |-> Zero,
                          energy_to_battery_wh |-> energy_wh(charge_amount)]]
        ELSE
          [battery |-> b,
           ok |-> TRUE,
           call |-> NoOp(b),
           entry |-> [start |-> forecast.start, end |-> forecast.end,
                      energy_from_battery_wh |-> Zero,
                      energy_to_battery_wh |-> Zero]]

\* plan_interval with the operands of excess exchanged
plan_interval_excess_flipped(b, forecast, price, limit, average) ==
    LET duration_hours == RDiv(Rat(15, 1), Rat(60, 1))
    IN  IF RGt(forecast.consumption_average_power_interval, limit)
        THEN
          LET excess == RSub(limit,
                             forecast.consumption_average_power_interval)
              r == discharge_battery(b, excess, duration_hours)
              discharged_energy == r.result.val
          IN  [battery |-> r.battery,
               ok |-> r.result.ok,
               call |-> [op |-> "discharge", amount_mw |-> excess,
                         duration_hours |-> duration_hours,
                         pre |-> b, post |-> r.battery, result |-> r.result],
               entry |-> [start |-> forecast.start, end |-> forecast.end,
                          energy_from_battery_wh |->
                              energy_wh(discharged_energy),
                          energy_to_battery_wh |-> Zero]]
        ELSE IF RLe(price.market_price_per_kwh, average)
        THEN
          LET r == charge_battery(b, Rat(15, 10), duration_hours)
              charge_amount == r.result.val
          IN  [battery |-> r.battery,
               ok |-> r.result.ok,
               call |-> [op |-> "charge", amount_mw |-> Rat(15, 10),
                         duration_hours |-> duration_hours,
                         pre |-> b, post |-> r.battery, result |-> r.result],
               entry |-> [start |-> forecast.start, end |-> forecast.end,
                          energy_from_battery_wh |-> Zero,
                          energy_to_battery_wh |-> energy_wh(charge_amount)]]
        ELSE
          [battery |-> b,
           ok |-> TRUE,
           call |-> NoOp(b),
           entry |-> [start |-> forecast.start, end |-> forecast.end,
                      energy_from_battery_wh |-> Zero,
                      energy_to_battery_wh |-> Zero]]

\* the body of the for loop of plan_battery_usage on one zipped pair: the
\* battery after it, the Plan pushed, the battery call made, and whether the
\* ? operator let the loop go on
plan_interval(b, forecast, price, limit, average) ==
    LET duration_hours == RDiv(Rat(15, 1), Rat(60, 1))
    IN  IF RGt(forecast.consumption_average_power_interval, limit)
        THEN
          LET excess == RSub(forecast.consumption_average_power_interval,
                             limit)
              r == discharge_battery(b, excess, duration_hours)
              discharged_energy == r.result.val
          IN  [battery |-> r.battery,
               ok |-> r.result.ok,
               call |-> [op |-> "discharge", amount_mw |-> excess,
                         duration_hours |-> duration_hours,
                         pre |-> b, post |-> r.battery, result |-> r.result],
               entry |-> [start |-> forecast.start, end |-> forecast.end,
                          energy_from_battery_wh |->
                              energy_wh(discharged_energy),
                          energy_to_battery_wh |-> Zero]]
        ELSE IF RLe(price.market_price_per_kwh, average)
        THEN
          LET r == charge_battery(b, Rat(15, 10), duration_hours)
              charge_amount == r.result.val
          IN  [battery |-> r.battery,
               ok |-> r.result.ok,
               call |-> [op |-> "charge", amount_mw |-> Rat(15, 10),
                         duration_hours |-> duration_hours,
                         pre |-> b, post |-> r.battery, result |-> r.result],
               entry |-> [start |-> forecast.start, end |-> forecast.end,
                          energy_from_battery_wh |-> Zero,
                          energy_to_battery_wh |-> energy_wh(charge_amount)]]
        ELSE
          [battery |-> b,
           ok |-> TRUE,
           call |-> NoOp(b),
           entry |-> [start |-> forecast.start, end |-> forecast.end,
                      energy_from_battery_wh |-> Zero,
                      energy_to_battery_wh |-> Zero]]

\* inputs of plan_battery_usage: load_forecasts admits power >= 0 and
\* start < end, load_day_ahead_prices admits price >= 0
ForecastPowers == {Rat(7, 1), Rat(78, 10), Rat(8, 1), Rat(10, 1)}
ForecastEnds == {15, 60}
Forecast ==
    [start : {0}, end : ForecastEnds,
     consumption_average_power_interval : ForecastPowers]

MarketPrices == {Rat(1, 10), Rat(2, 10), Rat(3, 10)}
ElectricityPrice ==
    [start : {0}, end : {15}, market_price_currency : {"EUR"},
     market_price_per_kwh : MarketPrices]

AveragePrices == {Rat(2, 10)}

PlanSettings == {c \in Settings : c.efficiency = Rat(9, 10)}

SeqsUpTo(S, n) == UNION {[1..k -> S] : k \in 0..n}

\* main: the battery is built from the settings and moved into
\* plan_battery_usage with the loaded forecasts and prices
InitPlan ==
    /\ config \in PlanSettings
    /\ battery = new(config.capacity, config.initial_charge,
                     config.max_rate, config.efficiency)
    /\ last = NoCall
    /\ durations_ok = TRUE
    /\ ncalls = 0
    /\ forecasts \in SeqsUpTo(Forecast, MaxLen)
    /\ prices \in SeqsUpTo(ElectricityPrice, MaxLen)
    /\ grid_limit = config.grid_limit
    /\ average_price \in AveragePrices
    /\ plan = <<>>
    /\ idx = 0
    /\ trace = <<>>
    /\ pc = "loop"
    /\ result = "none"
    /\ hourly_prices = <<>>
    /\ fifteen_minute_prices = <<>>
    /\ hour = 0
    /\ quarter = 0

ApiVars == <<last, durations_ok, ncalls>>
Inputs == <<config, forecasts, prices, grid_limit, average_price>>

\* one iteration of the for loop
PlanInterval ==
    /\ pc = "loop"
    /\ idx < Len(zip(forecasts, prices))
    /\ LET pair == zip(forecasts, prices)[idx + 1]
           r == plan_interval(battery, pair.forecast, pair.price,
                              grid_limit, average_price)
       IN  /\ battery' = r.battery
           /\ trace' = Append(trace, r.call)
           /\ idx' = idx + 1
           /\ IF r.ok
              THEN /\ plan' = Append(plan, r.entry)
                   /\ pc' = "loop"
                   /\ result' = "none"
              ELSE /\ plan' = <<>>
                   /\ pc' = "done"
                   /\ result' = "Err"
    /\ UNCHANGED <<Inputs, ApiVars, PriceVars>>

\* the iterator is exhausted: Ok(plan)
PlanReturn ==
    /\ pc = "loop"
    /\ idx = Len(zip(forecasts, prices))
    /\ pc' = "done"
    /\ result' = "Ok"
    /\ UNCHANGED <<Inputs, ApiVars, PriceVars, battery, plan, idx, trace>>

NextPlan == PlanInterval \/ PlanReturn

SpecPlan == InitPlan /\ [][NextPlan]_vars

----------------------------------------------------------------------------
(* prices.rs *)

\* the record pushed by the inner loop with the span of the hourly record
\* divided in four
fifteen_minute_interval_of_span(price, i) ==
    LET start_time == price.start
        price_per_kwh == price.market_price_per_kwh
        currency == price.market_price_currency
        step == (price.end - price.start) \div 4
        interval_start == start_time + i * step
        interval_end == interval_start + step
    IN  [start |-> interval_start, end |-> interval_end,
         market_price_currency |-> currency,
         market_price_per_kwh |-> price_per_kwh]

\* the record pushed by the inner loop of
\* convert_to_fifteen_minute_intervals for hourly record price and index i;
\* timestamps are minutes
fifteen_minute_interval(price, i) ==
    LET start_time == price.start
        price_per_kwh == price.market_price_per_kwh
        currency == price.market_price_currency
        interval_start == start_time + i * 15
        interval_end == interval_start + 15
    IN  [start |-> interval_start, end |-> interval_end,
         market_price_currency |-> currency,
         market_price_per_kwh |-> price_per_kwh]

\* records load_day_ahead_prices hands over: validate_price admits
\* price >= 0 and start < end, whatever the span
HourlyStarts == {0, 60}
HourlySpans == {60, 120}
HourlyCurrencies == {"EUR", "USD"}
HourlyPrices == {Rat(1, 10), Rat(3, 10)}
HourlyPrice ==
    {[start |-> st, end |-> st + sp, market_price_currency |-> cu,
      market_price_per_kwh |-> pr] :
        st \in HourlyStarts, sp \in HourlySpans,
        cu \in HourlyCurrencies, pr \in HourlyPrices}

\* load_day_ahead_prices has read and validated the hourly records; the
\* settings play no part in the expansion
InitPrices ==
    /\ config = CHOOSE c \in Settings : TRUE
    /\ battery = new(config.capacity, config.initial_charge,
                     config.max_rate, config.efficiency)
    /\ last = NoCall
    /\ durations_ok = TRUE
    /\ ncalls = 0
    /\ forecasts = <<>>
    /\ prices = <<>>
    /\ grid_limit = config.grid_limit
    /\ average_price = Zero
    /\ plan = <<>>
    /\ idx = 0
    /\ trace = <<>>
    /\ pc = "expand"
    /\ result = "none"
    /\ hourly_prices \in SeqsUpTo(HourlyPrice, MaxHours)
    /\ fifteen_minute_prices = <<>>
    /\ hour = 0
    /\ quarter = 0

Rest == <<config, battery, last, durations_ok, ncalls, forecasts, prices,
          grid_limit, average_price, plan, idx, trace, result>>

\* one pass of the inner loop: push the record for i = quarter
ExpandPush ==
    /\ pc = "expand"
    /\ hour < Len(hourly_prices)
    /\ quarter < 4
    /\ fifteen_minute_prices' =
           Append(fifteen_minute_prices,
                  fifteen_minute_interval(hourly_prices[hour + 1], quarter))
    /\ quarter' = quarter + 1
    /\ UNCHANGED <<Rest, pc, hourly_prices, hour>>

\* the inner loop is over: the outer loop takes the next hourly record
ExpandNextHour ==
    /\ pc = "expand"
    /\ hour < Len(hourly_prices)
    /\ quarter = 4
    /\ hour' = hour + 1
    /\ quarter' = 0
    /\ UNCHANGED <<Rest, pc, hourly_prices, fifteen_minute_prices>>

\* the outer loop is over: fifteen_minute_prices is returned
ExpandReturn ==
    /\ pc = "expand"
    /\ hour = Len(hourly_prices)
    /\ pc' = "expanded"
    /\ UNCHANGED <<Rest, PriceVars>>

NextPrices == ExpandPush \/ ExpandNextHour \/ ExpandReturn

SpecPrices == InitPrices /\ [][NextPrices]_vars

----------------------------------------------------------------------------
(* Properties of the battery API *)

\* the start the battery data model asks for
ValidStart ==
    /\ RLe(Zero, config.initial_charge)
    /\ RLe(config.initial_charge, config.capacity)
    /\ RGt(config.max_rate, Zero)
    /\ RGt(config.efficiency, Zero)
    /\ RLe(config.efficiency, Rat(1, 1))

\* C1: from a battery with 0 <= initial_charge <= capacity, max_rate > 0
\* and 0 < efficiency <= 1, after any sequence of charge_battery and
\* discharge_battery calls with durations >= 0 (any power, accepted or
\* rejected), 0 <= charge <= capacity.
ChargeWithinCapacity ==
    (ValidStart /\ durations_ok) =>
        /\ RLe(Zero, battery.charge)
        /\ RLe(battery.charge, battery.capacity)

\* a discharge asking for more than is stored has drained a valid battery
DrainedWitness ==
    /\ ValidStart /\ durations_ok
    /\ last.op = "discharge" /\ last.result.ok
    /\ RGt(last.pre.charge, Zero)
    /\ battery.charge = Zero
    /\ ncalls >= 2

\* C2: charge_battery and discharge_battery called with power < 0 return
\* an error and leave every field of the battery as it was, whatever the
\* duration and the state.
NegativePowerRejected ==
    (last.op # "none" /\ RLt(last.amount_mw, Zero)) =>
        /\ ~last.result.ok
        /\ battery = last.pre

\* a charge with negative power and negative duration on a used battery
NegativePowerWitness ==
    /\ last.op = "charge"
    /\ RLt(last.amount_mw, Zero) /\ RLt(last.duration_hours, Zero)
    /\ battery.charge # config.initial_charge

\* C3: for power >= 0, duration >= 0 and 0 <= charge <= capacity,
\* charge_battery returns min(min(power, max_rate) * duration * efficiency,
\* capacity - charge), the new charge is the old charge plus the returned
\* amount, and the new charge does not exceed capacity.
ChargeReturnsStored ==
    (/\ last.op = "charge"
     /\ RLe(Zero, last.amount_mw) /\ RLe(Zero, last.duration_hours)
     /\ RLe(Zero, last.pre.charge)
     /\ RLe(last.pre.charge, last.pre.capacity)) =>
        /\ last.result.ok
        /\ last.result.val =
             RMin(RMul(RMul(RMin(last.amount_mw, last.pre.max_rate),
                            last.duration_hours), last.pre.efficiency),
                  RSub(last.pre.capacity, last.pre.charge))
        /\ battery.charge = RAdd(last.pre.charge, last.result.val)
        /\ RLe(battery.charge, battery.capacity)

\* a charge that the remaining capacity cut short
ChargeCappedWitness ==
    /\ last.op = "charge" /\ last.result.ok
    /\ RLe(Zero, last.duration_hours)
    /\ RLe(Zero, last.pre.charge)
    /\ RLt(last.pre.charge, last.pre.capacity)
    /\ battery.charge = battery.capacity
    /\ RLt(last.result.val,
           RMul(RMul(RMin(last.amount_mw, last.pre.max_rate),
                     last.duration_hours), last.pre.efficiency))

\* C4: for power >= 0 and duration >= 0, discharge_battery computes
\* needed = min(power, max_rate) * duration / efficiency; if charge < needed
\* it sets charge to 0 and returns the old charge, otherwise it subtracts
\* needed and returns needed; either way the returned value is the old
\* charge minus the new charge.
DischargeReturnsRemoved ==
    (/\ last.op = "discharge"
     /\ RLe(Zero, last.amount_mw) /\ RLe(Zero, last.duration_hours)) =>
        LET needed == RDiv(RMul(RMin(last.amount_mw, last.pre.max_rate),
                                last.duration_hours), last.pre.efficiency)
        IN  /\ last.result.ok
            /\ IF RLt(last.pre.charge, needed)
               THEN battery.charge = Zero /\ last.result.val = last.pre.charge
               ELSE /\ battery.charge = RSub(last.pre.charge, needed)
                    /\ last.result.val = needed
            /\ last.result.val = RSub(last.pre.charge, battery.charge)

\* a partial discharge at an efficiency below 1
DischargePartialWitness ==
    /\ last.op = "discharge" /\ last.result.ok
    /\ RLt(last.pre.efficiency, Rat(1, 1))
    /\ RGt(last.result.val, Zero)
    /\ RGt(battery.charge, Zero)
    /\ RGt(last.result.val,
           RMul(RMin(last.amount_mw, last.pre.max_rate), last.duration_hours))

\* the battery of the concrete scenarios
ScenarioBattery == new(Rat(3, 1), Rat(3, 2), Rat(3, 2), Rat(9, 10))

ScenarioCharge ==
    /\ last.op = "charge"
    /\ last.pre = ScenarioBattery
    /\ last.amount_mw = Rat(5, 1)
    /\ last.duration_hours = Rat(1, 1)

\* C5 as stated: on the scenario battery charge(5.0, 1.0) returns 1.5 and
\* leaves charge = 3.0.
ScenarioChargeFillsBattery ==
    ScenarioCharge =>
        /\ last.result = Ok(Rat(3, 2))
        /\ battery.charge = Rat(3, 1)

\* C5 amended: on the scenario battery charge(5.0, 1.0) is limited by
\* max_rate and efficiency, returns 1.35 and leaves charge = 2.85.
ScenarioChargeRateLimited ==
    ScenarioCharge =>
        /\ last.result = Ok(Rat(135, 100))
        /\ battery.charge = Rat(285, 100)
        /\ battery = [last.pre EXCEPT !.charge = Rat(285, 100)]

\* the scenario call has been made
ScenarioChargeWitness == ScenarioCharge /\ last.result.ok

----------------------------------------------------------------------------
(* Properties of the planner *)

Power(i) == forecasts[i].consumption_average_power_interval
Price(i) == prices[i].market_price_per_kwh
QuarterHour == Rat(1, 4)

\* C6: for every processed interval i with forecast power > grid_limit the
\* planner calls discharge with power = forecast power - grid_limit and
\* duration 0.25 h, whatever the timestamps and the price; entry i has
\* energy_from_battery = the converted amount returned by that discharge and
\* energy_to_battery = 0, and the battery is not charged.
ViolationDischarges ==
    \A i \in 1..Len(plan) :
        RGt(Power(i), grid_limit) =>
            /\ trace[i].op = "discharge"
            /\ trace[i].amount_mw = RSub(Power(i), grid_limit)
            /\ trace[i].duration_hours = QuarterHour
            /\ trace[i].result.ok
            /\ plan[i].energy_from_battery_wh = energy_wh(trace[i].result.val)
            /\ plan[i].energy_to_battery_wh = Zero
            /\ (RGt(config.max_rate, Zero) =>
                    RLe(trace[i].post.charge, trace[i].pre.charge))

\* an hour-long forecast above the limit at a favourable price was served
\* by a discharge
ViolationWitness ==
    \E i \in 1..Len(plan) :
        /\ RGt(Power(i), grid_limit)
        /\ forecasts[i].end - forecasts[i].start = 60
        /\ RLt(Price(i), average_price)
        /\ RGt(trace[i].result.val, Zero)
        /\ RGt(plan[i].energy_from_battery_wh, Zero)

\* C7: for every processed interval i with forecast power <= grid_limit and
\* price <= average_price (equalities included) the planner calls charge
\* with 1.5 MW and duration 0.25 h; entry i has energy_to_battery = the
\* converted amount returned by that charge and energy_from_battery = 0, and
\* the battery is not discharged.
FavorablePriceCharges ==
    \A i \in 1..Len(plan) :
        (RLe(Power(i), grid_limit) /\ RLe(Price(i), average_price)) =>
            /\ trace[i].op = "charge"
            /\ trace[i].amount_mw = Rat(3, 2)
            /\ trace[i].duration_hours = QuarterHour
            /\ trace[i].result.ok
            /\ plan[i].energy_to_battery_wh = energy_wh(trace[i].result.val)
            /\ plan[i].energy_from_battery_wh = Zero
            /\ (/\ RGt(config.max_rate, Zero)
                /\ RLe(trace[i].pre.charge, trace[i].pre.capacity)) =>
                    RLe(trace[i].pre.charge, trace[i].post.charge)

\* an interval with power = grid_limit and price = average_price charged
FavorableWitness ==
    \E i \in 1..Len(plan) :
        /\ Power(i) = grid_limit
        /\ Price(i) = average_price
        /\ RGt(trace[i].result.val, Zero)
        /\ RGt(plan[i].energy_to_battery_wh, Zero)

\* the internal amount behind the non-zero side of entry i
Internal(i) == trace[i].result.val

\* C8: every reported amount is floor(x * 1_000_000 / 10) * 10 of the
\* internal MWh amount x returned by the battery, for energy_from_battery
\* and for energy_to_battery.
ReportedFloorOfTens ==
    \A i \in 1..Len(plan) :
        LET reported == RMul(RFloor(RDiv(RMul(Internal(i),
                                             Rat(1000000, 1)), Rat(10, 1))),
                             Rat(10, 1))
        IN  /\ trace[i].op = "discharge" =>
                 plan[i].energy_from_battery_wh = reported
            /\ trace[i].op = "charge" =>
                 plan[i].energy_to_battery_wh = reported

PositiveSettings ==
    /\ RGt(config.capacity, Zero)
    /\ RGt(config.initial_charge, Zero)
    /\ RGt(config.max_rate, Zero)
    /\ RGt(config.efficiency, Zero)
    /\ RLe(config.efficiency, Rat(1, 1))

\* C9: for a battery built from settings with capacity, initial_charge and
\* max_rate positive and efficiency in (0, 1], every entry of the plan has
\* energy_from_battery >= 0 and energy_to_battery >= 0.
EnergiesNonNegative ==
    PositiveSettings =>
        \A i \in 1..Len(plan) :
            /\ RLe(Zero, plan[i].energy_from_battery_wh)
            /\ RLe(Zero, plan[i].energy_to_battery_wh)

Shorter == IF Len(forecasts) < Len(prices) THEN Len(forecasts) ELSE Len(prices)

\* the branch the inputs at position i select
Branch(i) ==
    IF RGt(Power(i), grid_limit) THEN "discharge"
    ELSE IF RLe(Price(i), average_price) THEN "charge"
    ELSE "none"

\* C10: forecasts and prices are paired by position: the returned plan has
\* min(len(forecasts), len(prices)) entries, entry i comes from forecast i
\* and price i in input order, and the surplus of the longer sequence
\* reaches neither the plan nor the battery.
PairedByPosition ==
    /\ Len(plan) <= Shorter /\ Len(trace) <= Shorter
    /\ result = "Ok" => (Len(plan) = Shorter /\ Len(trace) = Shorter)
    /\ \A i \in 1..Len(plan) :
           /\ plan[i].start = forecasts[i].start
           /\ plan[i].end = forecasts[i].end
           /\ trace[i].op = Branch(i)
    /\ \A i \in 1..Len(trace) :
           trace[i].pre = (IF i = 1
                           THEN new(config.capacity, config.initial_charge,
                                    config.max_rate, config.efficiency)
                           ELSE trace[i - 1].post)
    /\ Len(trace) > 0 => battery = trace[Len(trace)].post

\* a plan returned for sequences of different lengths, with a battery call
PairedWitness ==
    /\ result = "Ok"
    /\ Len(forecasts) # Len(prices)
    /\ Len(plan) >= 1
    /\ \E i \in 1..Len(plan) : trace[i].op # "none"

\* the battery plan_battery_usage is handed
InitialBattery ==
    new(config.capacity, config.initial_charge, config.max_rate,
        config.efficiency)

InPlanner == pc \in {"loop", "done"}

\* C13: for every processed interval with forecast power <= grid_limit and
\* price > average_price the entry has both energies 0, no battery
\* operation is invoked and the charge after the interval is the charge
\* before it.
IdleLeavesBattery ==
    \A i \in 1..Len(plan) :
        (RLe(Power(i), grid_limit) /\ RGt(Price(i), average_price)) =>
            /\ plan[i].energy_from_battery_wh = Zero
            /\ plan[i].energy_to_battery_wh = Zero
            /\ trace[i].op = "none"
            /\ trace[i].post = trace[i].pre
            /\ (i < Len(trace) => trace[i + 1].pre.charge = trace[i].pre.charge)
            /\ (i = Len(trace) => battery.charge = trace[i].pre.charge)

\* an idle interval that follows an interval which moved the charge, on a
\* battery with room left
IdleWitness ==
    /\ Len(plan) >= 2
    /\ RLe(Power(2), grid_limit) /\ RGt(Price(2), average_price)
    /\ trace[1].post.charge # trace[1].pre.charge
    /\ RLt(battery.charge, battery.capacity)
    /\ RGt(battery.charge, Zero)

\* the plan and the final battery of a pass over fs and ps from battery b,
\* as a fold from the left
RECURSIVE FoldLeft(_, _, _)
FoldLeft(fs, ps, b) ==
    IF fs = <<>> \/ ps = <<>>
    THEN [battery |-> b, plan |-> <<>>]
    ELSE LET r == plan_interval(b, Head(fs), Head(ps), grid_limit,
                                average_price)
             rest == FoldLeft(Tail(fs), Tail(ps), r.battery)
         IN  [battery |-> rest.battery, plan |-> <<r.entry>> \o rest.plan]

\* C14: the pass is a fold from the left: entry i depends only on forecast
\* i, price i, grid_limit, average_price and the battery after interval
\* i-1, so the first k entries and the battery after interval k are those
\* of a pass over the first k forecasts and prices alone (any two runs that
\* agree on the first k positions agree on them).
PrefixDeterminesPlan ==
    (InPlanner /\ result # "Err") =>
        LET k == Len(plan)
            f == FoldLeft(SubSeq(forecasts, 1, k), SubSeq(prices, 1, k),
                          InitialBattery)
        IN  /\ plan = f.plan
            /\ battery = f.battery
            /\ \A i \in 1..k :
                   /\ trace[i].pre = (IF i = 1 THEN InitialBattery
                                      ELSE trace[i - 1].post)
                   /\ plan[i] = plan_interval(trace[i].pre, forecasts[i],
                                              prices[i], grid_limit,
                                              average_price).entry

\* the pass has processed the first of two intervals, which moved the
\* charge, and the second selects another branch
PrefixWitness ==
    /\ pc = "loop"
    /\ Len(plan) = 1
    /\ Shorter = 2
    /\ Branch(2) # Branch(1)
    /\ trace[1].post # trace[1].pre

\* C15: plan_battery_usage never takes an error path: discharge is called
\* only with excess > 0 and charge only with 1.5, so no battery operation
\* is rejected and the pass returns a complete plan.
PlannerNeverFails ==
    /\ result # "Err"
    /\ \A i \in 1..Len(trace) :
           /\ trace[i].result.ok
           /\ trace[i].op = "discharge" => RGt(trace[i].amount_mw, Zero)
           /\ trace[i].op = "charge" => trace[i].amount_mw = Rat(3, 2)
    /\ Len(plan) = Len(trace)
    /\ (InPlanner /\ pc = "done") => (result = "Ok" /\ Len(plan) = Shorter)

\* a returned plan whose pass both discharged and charged
CompleteWitness ==
    /\ result = "Ok"
    /\ \E i, j \in 1..Len(trace) :
           trace[i].op = "discharge" /\ trace[j].op = "charge"

\* sum of the amounts the calls of kind op in tr returned
RECURSIVE Returned(_, _)
Returned(tr, op) ==
    IF tr = <<>> THEN Zero
    ELSE RAdd(IF Head(tr).op = op THEN Head(tr).result.val ELSE Zero,
              Returned(Tail(tr), op))

Conserved ==
    /\ battery.charge =
           RSub(RAdd(config.initial_charge, Returned(trace, "charge")),
                Returned(trace, "discharge"))
    /\ RLe(Returned(trace, "discharge"),
           RAdd(config.initial_charge, Returned(trace, "charge")))

\* C16 as stated: for a battery with 0 <= initial_charge <= capacity, after
\* every interval charge = initial_charge + sum of the amounts charge
\* returned - sum of the amounts discharge returned, hence the energy
\* removed never exceeds initial_charge plus the energy stored.
EnergyConserved ==
    (/\ InPlanner
     /\ RLe(Zero, config.initial_charge)
     /\ RLe(config.initial_charge, config.capacity)) => Conserved

\* C16 amended: the same for a battery that also has max_rate > 0 and
\* 0 < efficiency <= 1.
EnergyConservedValidBattery ==
    (InPlanner /\ ValidStart) => Conserved

\* a valid battery that was charged and then drained by a discharge
ConservedWitness ==
    /\ InPlanner /\ ValidStart
    /\ Len(trace) = 2
    /\ trace[1].op = "charge" /\ RGt(trace[1].result.val, Zero)
    /\ trace[2].op = "discharge" /\ RGt(trace[2].result.val, Zero)
    /\ battery.charge = Zero

----------------------------------------------------------------------------
(* Properties of the price expansion *)

\* C12: n hourly records expand to exactly 4n records in input order:
\* output record 4k+j (k from 0, j in 0..3) starts at start_k + 15*j
\* minutes, ends 15 minutes later and carries the price and currency of
\* record k, whatever record k's own end.
FourQuartersPerHour ==
    /\ pc = "expanded" =>
           Len(fifteen_minute_prices) = 4 * Len(hourly_prices)
    /\ pc = "expand" => Len(fifteen_minute_prices) = 4 * hour + quarter
    /\ \A k \in 0..(Len(hourly_prices) - 1) : \A j \in 0..3 :
           (4 * k + j + 1 <= Len(fifteen_minute_prices)) =>
               LET out == fifteen_minute_prices[4 * k + j + 1]
                   in == hourly_prices[k + 1]
               IN  /\ out.start = in.start + 15 * j
                   /\ out.end = out.start + 15
                   /\ out.market_price_per_kwh = in.market_price_per_kwh
                   /\ out.market_price_currency = in.market_price_currency

\* two records of different price, the first spanning two hours, expanded
ExpandedWitness ==
    /\ pc = "expanded"
    /\ Len(hourly_prices) = 2
    /\ Len(fifteen_minute_prices) = 8
    /\ hourly_prices[1].end - hourly_prices[1].start = 120
    /\ hourly_prices[1].market_price_per_kwh #
           hourly_prices[2].market_price_per_kwh

====
